---------------------------- MODULE Spec2Model ----------------------------
(***************************************************************************)
(* A model of CrosswordCreator (generate.py): the domain store, node       *)
(* consistency, revise / AC-3, the consistency checker and the             *)
(* backtracking search, as a state machine over small puzzles.             *)
(*                                                                         *)
(* Words are sequences of letters.  The code indexes words from 0; the     *)
(* operator At(word, i) reads the code's word[i].                          *)
(***************************************************************************)
EXTENDS Integers, Sequences, FiniteSets

\* ------------------------------------------------------------------ bounds

\* The word list of a puzzle holds at most MaxWords words.
MaxWords == 3

\* A caller-supplied worklist ac3(arcs) holds at most MaxArcs arcs.
MaxArcs == 1

\* The word list of a puzzle on which a method is called with arguments of
\* the caller's (a worklist, an assignment) holds at most MaxCallWords words.
MaxCallWords == 2

\* ------------------------------------------------------- puzzle description

Letters == {"a", "b"}

\* Every word a word list may hold: the words of 2 and of 3 letters.
WordUniverse ==
    [1..2 -> Letters] \cup [1..3 -> Letters]

\* The grids: each is the set of its fillable cells <<row, column>>.
Structures ==
    { {<<0,0>>, <<0,1>>, <<0,2>>},
      {<<0,0>>, <<0,1>>, <<0,2>>, <<1,1>>, <<2,1>>},
      {<<0,0>>, <<0,1>>, <<2,0>>, <<2,1>>},
      {<<0,0>>, <<0,1>>, <<0,2>>, <<1,0>>},
      {<<0,0>>, <<1,0>>, <<2,0>>, <<0,1>>, <<2,1>>, <<2,2>>},
      {<<0,0>>, <<0,1>>, <<0,2>>, <<1,2>>, <<2,0>>, <<2,1>>, <<2,2>>} }

RECURSIVE RunLength(_, _, _, _)
\* The number of fillable cells from <<i, j>> on, stepping by <<di, dj>>.
RunLength(s, i, j, d) ==
    IF <<i, j>> \in s
    THEN 1 + RunLength(s, i + d[1], j + d[2], d)
    ELSE 0

Step(direction) == IF direction = "down" THEN <<1, 0>> ELSE <<0, 1>>

\* The slots of a grid: every maximal run of more than one fillable cell.
VariablesOf(s) ==
    { [i |-> c[1], j |-> c[2], direction |-> dir,
       length |-> RunLength(s, c[1], c[2], Step(dir))] :
        <<c, dir>> \in
          { p \in s \X {"across", "down"} :
              /\ <<p[1][1] - Step(p[2])[1], p[1][2] - Step(p[2])[2]>> \notin s
              /\ RunLength(s, p[1][1], p[1][2], Step(p[2])) > 1 } }

\* The k-th cell of a variable, k counted from 0.
Cell(v, k) ==
    <<v.i + (IF v.direction = "down" THEN k ELSE 0),
      v.j + (IF v.direction = "across" THEN k ELSE 0)>>

None == <<>>

\* crossword.overlaps.get((x, y)): the index pair <<i, j>> of the cell x and
\* y share, or None.
Overlap(x, y) ==
    IF x = y THEN None
    ELSE LET common == { p \in (0..(x.length - 1)) \X (0..(y.length - 1)) :
                           Cell(x, p[1]) = Cell(y, p[2]) }
         IN  IF common = {} THEN None ELSE CHOOSE p \in common : TRUE

\* crossword.neighbors(x)
Neighbors(vs, x) == { y \in vs : Overlap(x, y) # None }

\* The code's word[i], i counted from 0.
At(word, i) == word[i + 1]

Orderings(S) ==
    { f \in [1..Cardinality(S) -> S] : \A a \in S : \E k \in DOMAIN f : f[k] = a }

\* The elements of set S in the order sequence ord lists them.
RECURSIVE InOrder(_, _)
InOrder(ord, S) ==
    IF ord = <<>> THEN <<>>
    ELSE (IF Head(ord) \in S THEN <<Head(ord)>> ELSE <<>>) \o InOrder(Tail(ord), S)

RECURSIVE Flatten(_)
Flatten(ss) == IF ss = <<>> THEN <<>> ELSE Head(ss) \o Flatten(Tail(ss))

\* ------------------------------------------------------------------- state

VARIABLES
    variables,   \* crossword.variables
    words,       \* crossword.words
    varOrder,    \* the iteration order of the variable sets and dicts
    domains,     \* self.domains
    pc,          \* where solve() or the current call stands
    queue,       \* ac3's worklist
    ac3Result,   \* "none", or what the last ac3 call returned: "True", "False"
    stack,       \* the frames of the active backtrack calls, innermost last
    callArg,     \* the assignment a backtrack call is being entered with
    retKind,     \* what the last backtrack call returned: "none", "None", "assignment"
    result,      \* the assignment backtrack / solve returned
    searched,    \* whether backtrack has been invoked
    last         \* the call made on the object: its name, arguments, the
                 \* domains it started from and the value it returned

vars == <<variables, words, varOrder, domains, pc, queue, ac3Result,
          stack, callArg, retKind, result, searched, last>>

puzzle == <<variables, words, varOrder>>
search == <<stack, callArg, retKind, result, searched>>
frame == <<variables, words, varOrder, domains, queue, ac3Result, last>>

Call(op, x, y, keys, ret, again) ==
    [op |-> op, x |-> x, y |-> y, keys |-> keys, before |-> domains,
     ret |-> ret, again |-> again]

EmptyAssignment == [v \in {} |-> <<>>]

\* __init__: every domain is the whole word list.
InitDomains(vs, ws) == [v \in vs |-> ws]

\* A CrosswordCreator just constructed, over a word list of at most n words.
Constructed(n) ==
    /\ \E s \in Structures : variables = VariablesOf(s)
    /\ words \in { ws \in SUBSET WordUniverse : Cardinality(ws) <= n }
    /\ varOrder \in Orderings(variables)
    /\ domains = InitDomains(variables, words)
    /\ queue = <<>>
    /\ ac3Result = "none"
    /\ stack = <<>>
    /\ callArg = EmptyAssignment
    /\ retKind = "none"
    /\ result = EmptyAssignment
    /\ searched = FALSE

\* main(): creator.solve() on the object just constructed.
Init ==
    /\ Constructed(MaxWords)
    /\ pc = "solve"
    /\ last = Call("solve", None, None, <<>>, "none", FALSE)

\* ------------------------------------------------------- node consistency

\* A slip: the comparison of line 101 written <= instead of ==.
EnforceAtMost(doms) ==
    [v \in DOMAIN doms |-> { word \in doms[v] : Len(word) <= v.length }]

\* enforce_node_consistency: the domains it leaves.
EnforceNodeConsistency(doms) ==
    [v \in DOMAIN doms |-> { word \in doms[v] : Len(word) = v.length }]

\* solve(), line 91.
SolveEnforce ==
    /\ pc = "solve"
    /\ domains' = EnforceNodeConsistency(domains)
    /\ pc' = "solve_ac3"
    /\ UNCHANGED <<puzzle, queue, ac3Result, search, last>>

\* ------------------------------------------------------------ revise, ac3

\* A slip: the overlap indices of line 119 exchanged.
ToRemoveSwapped(doms, x, y) ==
    LET overlap == Overlap(x, y)
    IN  IF overlap = None THEN {}
        ELSE { word \in doms[x] :
                 ~ \E other \in doms[y] :
                      /\ overlap[2] < Len(word)
                      /\ overlap[1] < Len(other)
                      /\ At(word, overlap[2]) = At(other, overlap[1]) }

\* A slip: the any of line 119 written all.
ToRemoveUnlessAll(doms, x, y) ==
    LET overlap == Overlap(x, y)
    IN  IF overlap = None THEN {}
        ELSE { word \in doms[x] :
                 ~ \A other \in doms[y] : At(word, overlap[1]) = At(other, overlap[2]) }

\* The words revise(x, y) collects in to_remove.
ToRemove(doms, x, y) ==
    LET overlap == Overlap(x, y)
    IN  IF overlap = None THEN {}
        ELSE { word \in doms[x] :
                 ~ \E other \in doms[y] : At(word, overlap[1]) = At(other, overlap[2]) }

\* revise(x, y): the domains it leaves.
ReviseDomains(doms, x, y) ==
    [doms EXCEPT ![x] = doms[x] \ ToRemove(doms, x, y)]

\* A slip: line 123 left out, revised stays False.
ReviseUnnoticed(doms, x, y) == FALSE

\* revise(x, y): the value it returns.
Revise(doms, x, y) == ToRemove(doms, x, y) # {}

\* ac3, line 134: all arcs, in the iteration order of the dict and the sets.
AllArcs ==
    Flatten([k \in 1..Len(varOrder) |->
               LET x  == varOrder[k]
                   ys == InOrder(varOrder, Neighbors(variables, x))
               IN  [n \in 1..Len(ys) |-> <<x, ys[n]>>]])

\* A slip: lines 141-142 left out, nothing is put back on the worklist.
RequeuedNothing(x, y) == <<>>

\* A slip: line 142 appending (x, z) instead of (z, x).
RequeuedForward(x, y) ==
    LET zs == InOrder(varOrder, Neighbors(variables, x) \ {y})
    IN  [n \in 1..Len(zs) |-> <<x, zs[n]>>]

\* ac3, lines 141-142: the arcs appended after a revision of x against y.
Requeued(x, y) ==
    LET zs == InOrder(varOrder, Neighbors(variables, x) \ {y})
    IN  [n \in 1..Len(zs) |-> <<zs[n], x>>]

\* solve(), line 92: ac3() with the default worklist.
SolveAc3 ==
    /\ pc = "solve_ac3"
    /\ queue' = AllArcs
    /\ pc' = "ac3_loop"
    /\ ac3Result' = "none"
    /\ UNCHANGED <<puzzle, domains, search, last>>

\* A slip: line 137 reading queue[0] without removing it.
RestPeek(q) == q

\* ac3, line 137: what queue.pop(0) leaves of the worklist.
Rest(q) == Tail(q)

\* A slip: the test of line 139 without its "not".
EmptiedInverted(doms, x) == doms[x] # {}

\* A slip: lines 139-140 left out, an emptied domain is not noticed.
EmptiedNever(doms, x) == FALSE

\* ac3, line 139: the revised domain is empty.
Emptied(doms, x) == doms[x] = {}

\* Where control goes when ac3 returns: on in solve(), or back to the caller.
AfterAc3 == IF last.op = "solve" THEN "solve_bt" ELSE "idle"

\* ac3, lines 136-142: one iteration of the while loop.
Ac3Step ==
    /\ pc = "ac3_loop"
    /\ queue # <<>>
    /\ LET x == Head(queue)[1]
           y == Head(queue)[2]
       IN  /\ domains' = ReviseDomains(domains, x, y)
           /\ IF Revise(domains, x, y)
              THEN IF Emptied(domains', x)
                   THEN /\ ac3Result' = "False"
                        /\ pc' = AfterAc3
                        /\ queue' = Rest(queue)
                   ELSE /\ queue' = Rest(queue) \o Requeued(x, y)
                        /\ UNCHANGED <<pc, ac3Result>>
              ELSE /\ queue' = Rest(queue)
                   /\ UNCHANGED <<pc, ac3Result>>
    /\ UNCHANGED <<puzzle, search, last>>

\* ac3, line 143: the worklist is empty.
Ac3Return ==
    /\ pc = "ac3_loop"
    /\ queue = <<>>
    /\ ac3Result' = "True"
    /\ pc' = AfterAc3
    /\ UNCHANGED <<puzzle, domains, queue, search, last>>

\* --------------------------------------------------------------- consistent

\* assignment_complete
AssignmentComplete(assignment) == DOMAIN assignment = variables

\* consistent, lines 165-171: the neighbours of var, in iteration order ns.
\* Indexing a word past its end raises IndexError.
RECURSIVE CheckNeighbors(_, _, _)
CheckNeighbors(ns, var, assignment) ==
    IF ns = <<>> THEN "True"
    ELSE LET neighbor == Head(ns)
             overlap  == Overlap(var, neighbor)
         IN  IF neighbor \in DOMAIN assignment
             THEN IF overlap[2] >= Len(assignment[neighbor])
                  THEN "IndexError"
                  ELSE IF At(assignment[var], overlap[1])
                            # At(assignment[neighbor], overlap[2])
                       THEN "False"
                       ELSE CheckNeighbors(Tail(ns), var, assignment)
             ELSE CheckNeighbors(Tail(ns), var, assignment)

\* consistent, lines 161-171: the loop over the assignment's keys.
RECURSIVE CheckVars(_, _)
CheckVars(keys, assignment) ==
    IF keys = <<>> THEN "True"
    ELSE LET var == Head(keys)
             r   == IF Len(assignment[var]) # var.length
                    THEN "False"
                    ELSE CheckNeighbors(
                           InOrder(varOrder, Neighbors(variables, var)),
                           var, assignment)
         IN  IF r # "True" THEN r ELSE CheckVars(Tail(keys), assignment)

\* A slip: the test of line 215 left out, every extension is searched.
ConsistentAlways(keys, assignment) == "True"

\* A slip: the loop of lines 165-171 left out, overlaps are not compared.
ConsistentNoOverlap(keys, assignment) ==
    IF Cardinality({ assignment[v] : v \in DOMAIN assignment })
         < Cardinality(DOMAIN assignment)
    THEN "False"
    ELSE IF \E v \in DOMAIN assignment : Len(assignment[v]) # v.length
         THEN "False"
         ELSE "True"

\* A slip: the distinctness test of lines 159-160 left out.
ConsistentNoDistinct(keys, assignment) == CheckVars(keys, assignment)

\* consistent(assignment), the assignment's keys being in the order keys:
\* "True", "False", or "IndexError" when it raises.
Consistent(keys, assignment) ==
    IF Cardinality({ assignment[v] : v \in DOMAIN assignment })
         < Cardinality(DOMAIN assignment)
    THEN "False"
    ELSE CheckVars(keys, assignment)

\* ---------------------------------------------------------------- heuristics

\* A slip: the comparison of line 187 written == instead of !=.
CountAgreements(var, assignment, value) ==
    Cardinality(
      { p \in { q \in (Neighbors(variables, var) \ DOMAIN assignment) \X words :
                  q[2] \in domains[q[1]] } :
          At(value, Overlap(var, p[1])[1]) = At(p[2], Overlap(var, p[1])[2]) })

\* order_domain_values, count_conflicts(value)
CountConflicts(var, assignment, value) ==
    Cardinality(
      { p \in { q \in (Neighbors(variables, var) \ DOMAIN assignment) \X words :
                  q[2] \in domains[q[1]] } :
          At(value, Overlap(var, p[1])[1]) # At(p[2], Overlap(var, p[1])[2]) })

\* The place of a word in the iteration order of a set of words: the model
\* iterates a set of words in dictionary order.
RECURSIVE WordRank(_)
WordRank(word) ==
    IF word = <<>> THEN 0
    ELSE (IF Head(word) = "a" THEN 1 ELSE 2) + 3 * WordRank(Tail(word))

\* order_domain_values(var, assignment): sorted() is stable, so words of equal
\* count keep the iteration order of the domain.
OrderDomainValues(var, assignment) ==
    LET count == [value \in domains[var] |->
                    CountConflicts(var, assignment, value)]
    IN  CHOOSE vals \in Orderings(domains[var]) :
           \A k \in 1..(Len(vals) - 1) :
              \/ count[vals[k]] < count[vals[k + 1]]
              \/ /\ count[vals[k]] = count[vals[k + 1]]
                 /\ WordRank(vals[k]) < WordRank(vals[k + 1])

\* A slip: the sort key of line 200 without the minus sign.
KeyLessPlusDegree(u, v) ==
    LET su == Cardinality(domains[u])
        sv == Cardinality(domains[v])
        du == Cardinality(Neighbors(variables, u))
        dv == Cardinality(Neighbors(variables, v))
    IN  su < sv \/ (su = sv /\ du < dv)

\* select_unassigned_variable, the sort key of line 200, compared as tuples.
KeyLess(u, v) ==
    LET su == Cardinality(domains[u])
        sv == Cardinality(domains[v])
        du == Cardinality(Neighbors(variables, u))
        dv == Cardinality(Neighbors(variables, v))
    IN  su < sv \/ (su = sv /\ -du < -dv)

\* select_unassigned_variable(assignment): the first of the stably sorted
\* list of unassigned variables, or None.
SelectUnassignedVariable(assignment) ==
    LET unassigned == InOrder(varOrder, variables \ DOMAIN assignment)
    IN  IF unassigned = <<>> THEN None
        ELSE LET k == CHOOSE k \in DOMAIN unassigned :
                        /\ \A m \in DOMAIN unassigned :
                              ~ KeyLess(unassigned[m], unassigned[k])
                        /\ \A m \in 1..(k - 1) :
                              KeyLess(unassigned[k], unassigned[m])
             IN  unassigned[k]

\* ----------------------------------------------------------------- backtrack

\* new_assignment = assignment.copy(); new_assignment[var] = value
Extend(assignment, var, value) ==
    [v \in DOMAIN assignment \cup {var} |->
        IF v = var THEN value ELSE assignment[v]]

\* The keys of the assignment the innermost call extends, in insertion order.
KeysOf(stk) == [k \in 1..Len(stk) |-> stk[k].var]

Top == stack[Len(stack)]
Pop == SubSeq(stack, 1, Len(stack) - 1)

\* solve(), line 93: backtrack(dict()).
SolveBacktrack ==
    /\ pc = "solve_bt"
    /\ callArg' = EmptyAssignment
    /\ searched' = TRUE
    /\ pc' = "bt_call"
    /\ UNCHANGED <<frame, stack, retKind, result>>

\* backtrack, lines 208-209: the assignment is complete.
BacktrackComplete ==
    /\ pc = "bt_call"
    /\ AssignmentComplete(callArg)
    /\ retKind' = "assignment"
    /\ result' = callArg
    /\ pc' = "bt_ret"
    /\ UNCHANGED <<frame, stack, callArg, searched>>

\* backtrack, lines 211-212: choose the variable and order its values.
BacktrackSelect ==
    /\ pc = "bt_call"
    /\ ~ AssignmentComplete(callArg)
    /\ LET var == SelectUnassignedVariable(callArg)
       IN  stack' = Append(stack, [assignment |-> callArg, var |-> var,
                                   values |-> OrderDomainValues(var, callArg),
                                   k |-> 1])
    /\ pc' = "bt_loop"
    /\ UNCHANGED <<frame, callArg, retKind, result, searched>>

\* A slip: line 213 without .copy(), the caller's dict itself is extended.
IteratedInPlace(f, new_assignment) ==
    [f EXCEPT !.k = @ + 1, !.assignment = new_assignment]

\* backtrack, lines 212-214: the frame of the call after one more iteration
\* of its for loop.  new_assignment is a copy, the call's own assignment is
\* not written.
Iterated(f, new_assignment) == [f EXCEPT !.k = @ + 1]

\* The keys of new_assignment in insertion order: those of the assignment
\* the outermost call was given, then the variables chosen since.
NewKeys == last.keys \o KeysOf(stack)

\* A slip: the search narrowing the domain of the variable it assigns.
BacktrackTryPruning ==
    /\ pc = "bt_loop"
    /\ Top.k <= Len(Top.values)
    /\ LET new_assignment == Extend(Top.assignment, Top.var, Top.values[Top.k])
       IN  /\ stack' = [stack EXCEPT ![Len(stack)] = Iterated(@, new_assignment)]
           /\ domains' = [domains EXCEPT ![Top.var] = {Top.values[Top.k]}]
           /\ IF Consistent(NewKeys, new_assignment) = "True"
              THEN /\ callArg' = new_assignment
                   /\ pc' = "bt_call"
              ELSE UNCHANGED <<callArg, pc>>
    /\ UNCHANGED <<puzzle, queue, ac3Result, last, retKind, result, searched>>

\* backtrack, lines 212-216: the next value of the for loop.
BacktrackTry ==
    /\ pc = "bt_loop"
    /\ Top.k <= Len(Top.values)
    /\ LET new_assignment == Extend(Top.assignment, Top.var, Top.values[Top.k])
       IN  /\ stack' = [stack EXCEPT ![Len(stack)] = Iterated(@, new_assignment)]
           /\ IF Consistent(NewKeys, new_assignment) = "True"
              THEN /\ callArg' = new_assignment
                   /\ pc' = "bt_call"
              ELSE UNCHANGED <<callArg, pc>>
    /\ UNCHANGED <<frame, retKind, result, searched>>

\* backtrack, line 219: the for loop is exhausted.
BacktrackFail ==
    /\ pc = "bt_loop"
    /\ Top.k > Len(Top.values)
    /\ stack' = Pop
    /\ retKind' = "None"
    /\ pc' = "bt_ret"
    /\ UNCHANGED <<frame, callArg, result, searched>>

\* A slip: line 217 left out, the result of the first recursive call is
\* returned whatever it is.
BacktrackResumeAlways ==
    /\ pc = "bt_ret"
    /\ stack # <<>>
    /\ stack' = Pop
    /\ UNCHANGED pc
    /\ UNCHANGED <<frame, callArg, retKind, result, searched>>

\* backtrack, lines 216-218: the recursive call has returned.
BacktrackResume ==
    /\ pc = "bt_ret"
    /\ stack # <<>>
    /\ IF retKind = "assignment"
       THEN /\ stack' = Pop
            /\ UNCHANGED pc
       ELSE /\ pc' = "bt_loop"
            /\ UNCHANGED stack
    /\ UNCHANGED <<frame, callArg, retKind, result, searched>>

\* solve(), line 93: return what backtrack returned.
SolveReturn ==
    /\ pc = "bt_ret"
    /\ stack = <<>>
    /\ pc' = "done"
    /\ UNCHANGED <<frame, search>>

\* --------------------------------------------------- the methods, one by one

\* A caller that enforces node consistency on a new object and then calls
\* revise or ac3 as it likes, each call returning before the next.
InitPropagate ==
    /\ Constructed(MaxWords)
    /\ pc = "new"
    /\ last = Call("new", None, None, <<>>, "none", FALSE)

\* enforce_node_consistency()
CallEnforce ==
    /\ pc = "new"
    /\ domains' = EnforceNodeConsistency(domains)
    /\ pc' = "idle"
    /\ last' = Call("enforce_node_consistency", None, None, <<>>, "none", FALSE)
    /\ UNCHANGED <<puzzle, queue, ac3Result, search>>

\* revise(x, y)
CallRevise ==
    /\ pc = "idle"
    /\ \E x \in variables, y \in variables :
         /\ domains' = ReviseDomains(domains, x, y)
         /\ last' = Call("revise", x, y, <<>>,
                         IF Revise(domains, x, y) THEN "True" ELSE "False", FALSE)
    /\ UNCHANGED <<puzzle, pc, queue, ac3Result, search>>

\* Whether the call before this one was an ac3() over all arcs that returned
\* True.
AfterAc3True == last.op = "ac3" /\ ac3Result = "True"

\* ac3(): the default worklist.
CallAc3 ==
    /\ pc = "idle"
    /\ queue' = AllArcs
    /\ ac3Result' = "none"
    /\ pc' = "ac3_loop"
    /\ last' = Call("ac3", None, None, <<>>, "none", AfterAc3True)
    /\ UNCHANGED <<puzzle, domains, search>>

\* The caller calls revise only.
NextRevise ==
    \/ CallEnforce
    \/ CallRevise

SpecRevise == InitPropagate /\ [][NextRevise]_vars

\* The caller calls ac3() only.
NextAc3 ==
    \/ CallEnforce
    \/ CallAc3
    \/ Ac3Step
    \/ Ac3Return

SpecAc3 == InitPropagate /\ [][NextAc3]_vars

\* The arcs of the puzzle: the pairs of a variable and a neighbour of it.
Arcs == { a \in variables \X variables : a[2] \in Neighbors(variables, a[1]) }

\* The worklists a caller may pass.
Worklists == UNION { [1..n -> Arcs] : n \in 0..MaxArcs }

\* ac3(arcs): a worklist of the caller's, on node-consistent domains.
CallAc3Arcs ==
    /\ pc = "idle"
    /\ last.op = "enforce_node_consistency"
    /\ queue' \in Worklists
    /\ ac3Result' = "none"
    /\ pc' = "ac3_loop"
    /\ last' = Call("ac3_arcs", None, None, <<>>, "none", FALSE)
    /\ UNCHANGED <<puzzle, domains, search>>

\* A caller that enforces node consistency on a new object and then calls
\* ac3 with a worklist of its own.
InitWorklist ==
    /\ Constructed(MaxCallWords)
    /\ pc = "new"
    /\ last = Call("new", None, None, <<>>, "none", FALSE)

NextWorklist ==
    \/ CallEnforce
    \/ CallAc3Arcs
    \/ Ac3Step
    \/ Ac3Return

\* The while loop of ac3 runs on: no iteration of it waits for anything.
SpecWorklist ==
    /\ InitWorklist
    /\ [][NextWorklist]_vars
    /\ WF_vars(Ac3Step)
    /\ WF_vars(Ac3Return)

\* A caller that calls consistent(assignment) once on a new object, with any
\* assignment of words of the word list to some of the variables.
InitConsistent ==
    /\ Constructed(MaxCallWords)
    /\ pc = "new"
    /\ last = Call("new", None, None, <<>>, "none", FALSE)

\* consistent(assignment): the dict's keys are in some insertion order.
CallConsistent ==
    /\ pc = "new"
    /\ \E vs \in SUBSET variables :
         \E assignment \in [vs -> words], keys \in Orderings(vs) :
            /\ callArg' = assignment
            /\ last' = Call("consistent", None, None, keys,
                            Consistent(keys, assignment), FALSE)
    /\ pc' = "idle"
    /\ UNCHANGED <<puzzle, domains, queue, ac3Result, stack, retKind, result,
                   searched>>

NextConsistent == CallConsistent

SpecConsistent == InitConsistent /\ [][NextConsistent]_vars

\* A caller that enforces node consistency on a new object, may run ac3(),
\* and then asks one of the two heuristics about an assignment of its own.
InitHeuristic ==
    /\ Constructed(MaxCallWords)
    /\ pc = "new"
    /\ last = Call("new", None, None, <<>>, "none", FALSE)

\* select_unassigned_variable(assignment)
CallSelect ==
    /\ pc = "idle"
    /\ \E vs \in SUBSET variables :
         \E assignment \in [vs -> words] :
            /\ callArg' = assignment
            /\ last' = Call("select_unassigned_variable", None, None, <<>>,
                            SelectUnassignedVariable(assignment), FALSE)
    /\ pc' = "called"
    /\ UNCHANGED <<puzzle, domains, queue, ac3Result, stack, retKind, result,
                   searched>>

\* order_domain_values(var, assignment)
CallOrder ==
    /\ pc = "idle"
    /\ \E var \in variables, vs \in SUBSET variables :
         \E assignment \in [vs -> words] :
            /\ callArg' = assignment
            /\ last' = Call("order_domain_values", var, None, <<>>,
                            OrderDomainValues(var, assignment), FALSE)
    /\ pc' = "called"
    /\ UNCHANGED <<puzzle, domains, queue, ac3Result, stack, retKind, result,
                   searched>>

NextHeuristic ==
    \/ CallEnforce
    \/ CallAc3
    \/ Ac3Step
    \/ Ac3Return
    \/ CallSelect
    \/ CallOrder

SpecHeuristic == InitHeuristic /\ [][NextHeuristic]_vars

\* A caller that enforces node consistency on a new object and then calls
\* backtrack once, on a partial assignment of its own that passes consistent.
InitBacktrack ==
    /\ Constructed(MaxWords)
    /\ pc = "new"
    /\ last = Call("new", None, None, <<>>, "none", FALSE)

\* backtrack(assignment): the dict's keys are in some insertion order.
CallBacktrack ==
    /\ pc = "idle"
    /\ \E vs \in SUBSET variables :
         \E assignment \in [vs -> words], keys \in Orderings(vs) :
            /\ Consistent(keys, assignment) = "True"
            /\ callArg' = assignment
            /\ last' = Call("backtrack", assignment, None, keys, "none", FALSE)
    /\ searched' = TRUE
    /\ pc' = "bt_call"
    /\ UNCHANGED <<puzzle, domains, queue, ac3Result, stack, retKind, result>>

NextBacktrack ==
    \/ CallEnforce
    \/ CallBacktrack
    \/ BacktrackComplete
    \/ BacktrackSelect
    \/ BacktrackTry
    \/ BacktrackFail
    \/ BacktrackResume

SpecBacktrack == InitBacktrack /\ [][NextBacktrack]_vars

Next ==
    \/ SolveEnforce
    \/ SolveAc3
    \/ Ac3Step
    \/ Ac3Return
    \/ SolveBacktrack
    \/ BacktrackComplete
    \/ BacktrackSelect
    \/ BacktrackTry
    \/ BacktrackFail
    \/ BacktrackResume
    \/ SolveReturn

Spec == Init /\ [][Next]_vars

\* -------------------------------------------------------------- properties

\* The constraints of the puzzle, stated on a complete assignment: every
\* variable has a word of the word list, of its length; the words differ
\* pairwise; intersecting variables agree at their overlap.
Valid(a) ==
    /\ DOMAIN a = variables
    /\ \A v \in variables : a[v] \in words /\ Len(a[v]) = v.length
    /\ \A u \in variables, v \in variables : u # v => a[u] # a[v]
    /\ \A u \in variables, v \in variables :
          Overlap(u, v) # None =>
             At(a[u], Overlap(u, v)[1]) = At(a[v], Overlap(u, v)[2])

SolutionExists == \E a \in [variables -> words] : Valid(a)

\* The words of the word list of v's length.
Fitting(v) == { w \in words : Len(w) = v.length }

\* x's domain is arc consistent with y's.
ArcConsistent(doms, x, y) ==
    \A w \in doms[x] :
       \E other \in doms[y] :
          At(w, Overlap(x, y)[1]) = At(other, Overlap(x, y)[2])

\* C1: whenever solve() returns an assignment, it maps every variable to one
\* word, passes consistent, and satisfies the length, distinctness and
\* overlap constraints.
C1_SolveSound ==
    (pc = "done" /\ retKind = "assignment") =>
        /\ Valid(result)
        /\ \A keys \in Orderings(variables) : Consistent(keys, result) = "True"

C1_Witness ==
    /\ pc = "done"
    /\ retKind = "assignment"
    /\ Cardinality(variables) = 3
    /\ Cardinality(words) = 3

\* C2: if some complete assignment of words of the word list satisfies the
\* constraints, solve() returns an assignment, not None.
C2_SolveComplete ==
    (pc = "done" /\ SolutionExists) => retKind = "assignment"

\* A recursive call has failed, in a puzzle that has a solution.
C2_Witness ==
    /\ pc = "bt_ret"
    /\ retKind = "None"
    /\ stack # <<>>
    /\ SolutionExists

\* C3: if ac3 returns False, solve() does not invoke backtrack.
C3_NoSearchAfterFailedAc3 ==
    ac3Result = "False" => ~ searched

\* C4: if ac3 returns False, solve() returns None.
C4_FailedAc3GivesNone ==
    (pc = "done" /\ ac3Result = "False") => retKind = "None"

C4_Witness ==
    /\ pc = "done"
    /\ ac3Result = "False"
    /\ retKind = "None"
    /\ \E v \in variables : domains[v] # {}

\* C5: after ac3 over all arcs has returned True, every word of a variable's
\* domain has a word in each neighbour's domain that agrees with it at the
\* overlap.
C5_ArcConsistentAfterAc3 ==
    ac3Result = "True" =>
        \A x \in variables : \A y \in Neighbors(variables, x) :
           ArcConsistent(domains, x, y)

\* ac3 has returned True after removing words of the right length from the
\* domains of two variables.
C5_Witness ==
    /\ ac3Result = "True"
    /\ Cardinality({ v \in variables : domains[v] # Fitting(v) }) >= 2
    /\ \A v \in variables : domains[v] # {}

\* C6: ac3 over all arcs, run right after an ac3 over all arcs that returned
\* True, removes no word and returns True.
C6_Ac3Idempotent ==
    (last.op = "ac3" /\ last.again) =>
        /\ domains = last.before
        /\ ac3Result # "False"

\* The second run has returned, the first having removed words.
C6_Witness ==
    /\ last.op = "ac3"
    /\ last.again
    /\ pc = "idle"
    /\ ac3Result = "True"
    /\ \E v \in variables : domains[v] # Fitting(v)

\* C7: ac3 terminates on every worklist, and whenever an iteration of its
\* loop does not shorten the worklist, it has removed a word from a domain.
C7_Ac3Terminates ==
    /\ (pc = "ac3_loop") ~> (pc = "idle")
    /\ [][(pc = "ac3_loop" /\ pc' = "ac3_loop" /\ Len(queue') >= Len(queue)) =>
            \E x \in variables :
               /\ domains'[x] \subseteq domains[x]
               /\ domains'[x] # domains[x]]_vars

\* ac3 has returned from a worklist of the caller's, after a revision that
\* put arcs back on the worklist.
C7_Witness ==
    /\ pc = "idle"
    /\ last.op = "ac3_arcs"
    /\ ac3Result = "True"
    /\ \E x \in variables :
          /\ Cardinality(Neighbors(variables, x)) >= 2
          /\ domains[x] # last.before[x]

\* C8: revise(x, y) removes from x's domain exactly the words with no
\* agreeing word in y's domain, changes no other domain, and returns True
\* exactly when it removed a word; without an overlap it changes nothing and
\* returns False.
C8_ReviseExact ==
    last.op = "revise" =>
        LET x == last.x
            y == last.y
            o == Overlap(x, y)
        IN  /\ \A v \in variables \ {x} : domains[v] = last.before[v]
            /\ domains[x] \subseteq last.before[x]
            /\ (last.ret = "True") <=> (domains[x] # last.before[x])
            /\ last.ret \in {"True", "False"}
            /\ IF o = None
               THEN domains[x] = last.before[x] /\ last.ret = "False"
               ELSE \A w \in last.before[x] :
                       (w \in domains[x]) <=>
                          (\E other \in last.before[y] :
                              At(w, o[1]) = At(other, o[2]))

\* revise has removed some words of x's domain, and kept others.
C8_Witness ==
    /\ last.op = "revise"
    /\ last.ret = "True"
    /\ domains[last.x] # {}
    /\ Overlap(last.x, last.y)[1] # Overlap(last.x, last.y)[2]

\* C9: after enforce_node_consistency, every variable's domain is exactly
\* the words of the word list of the variable's length.
C9_NodeConsistent ==
    pc = "solve_ac3" =>
        \A v \in variables :
           /\ domains[v] \subseteq words
           /\ \A w \in words : (w \in domains[v]) <=> (Len(w) = v.length)

\* enforce_node_consistency has removed words from a domain and kept others.
C9_Witness ==
    /\ pc = "solve_ac3"
    /\ \E v \in variables : domains[v] # {} /\ domains[v] # words
    /\ \E u \in variables, v \in variables : domains[u] # domains[v]

\* What makes an assignment inconsistent: a word used twice, a word of the
\* wrong length, or two intersecting assigned variables that disagree.
Inconsistent(a) ==
    \/ \E u \in DOMAIN a, v \in DOMAIN a : u # v /\ a[u] = a[v]
    \/ \E v \in DOMAIN a : Len(a[v]) # v.length
    \/ \E u \in DOMAIN a, v \in DOMAIN a :
          /\ Overlap(u, v) # None
          /\ Overlap(u, v)[1] < Len(a[u])
          /\ Overlap(u, v)[2] < Len(a[v])
          /\ At(a[u], Overlap(u, v)[1]) # At(a[v], Overlap(u, v)[2])

\* C10: consistent(assignment) returns False if and only if two assigned
\* variables have the same word, or an assigned word has the wrong length,
\* or two assigned intersecting variables disagree at their overlap; it
\* changes no domain.
C10_ConsistentDecides ==
    last.op = "consistent" =>
        /\ (last.ret = "False") <=> Inconsistent(callArg)
        /\ domains = last.before

\* C11: when a revision in ac3 leaves the revised domain empty, ac3 returns
\* False at once, the arcs left on the worklist are not processed; every
\* other iteration goes on with the loop; and ac3 returns True only from an
\* empty worklist, changing nothing as it returns.
C11_Ac3FailsAtOnce ==
    /\ [][(pc = "ac3_loop" /\ queue # <<>>) =>
            LET x == Head(queue)[1]
            IN  IF domains[x] # {} /\ domains'[x] = {}
                THEN /\ ac3Result' = "False"
                     /\ pc' # "ac3_loop"
                     /\ queue' = Tail(queue)
                ELSE /\ ac3Result' = ac3Result
                     /\ pc' = "ac3_loop"]_vars
    /\ [][(ac3Result # "True" /\ ac3Result' = "True") =>
            /\ pc = "ac3_loop"
            /\ queue = <<>>
            /\ domains' = domains]_vars
    /\ [][ac3Result = "False" =>
            /\ ac3Result' = "False"
            /\ queue' = queue
            /\ domains' = domains]_vars

\* ac3 has returned False and left on the worklist an arc whose revision
\* would have removed words.
C11_Witness ==
    /\ ac3Result = "False"
    /\ pc # "ac3_loop"
    /\ \E k \in DOMAIN queue : Revise(domains, queue[k][1], queue[k][2])

\* C12: on an incomplete assignment select_unassigned_variable returns one
\* variable that is not assigned, whose domain is smallest among the
\* unassigned variables, and that has the most neighbours among the
\* unassigned variables with a domain of that size.
C12_SelectMrvDegree ==
    (last.op = "select_unassigned_variable" /\ DOMAIN callArg # variables) =>
        LET var        == last.ret
            unassigned == variables \ DOMAIN callArg
            size(u)    == Cardinality(domains[u])
            degree(u)  == Cardinality(Neighbors(variables, u))
        IN  /\ var \in unassigned
            /\ \A u \in unassigned : size(var) <= size(u)
            /\ \A u \in unassigned :
                  size(u) = size(var) => degree(u) <= degree(var)
            /\ domains = last.before

\* The choice was between variables of equal domain size and different
\* numbers of neighbours, another variable having a larger domain.
C12_Witness ==
    /\ last.op = "select_unassigned_variable"
    /\ DOMAIN callArg # variables
    /\ \E u \in variables \ DOMAIN callArg :
          /\ u # last.ret
          /\ Cardinality(domains[u]) = Cardinality(domains[last.ret])
          /\ Cardinality(Neighbors(variables, u))
               < Cardinality(Neighbors(variables, last.ret))
    /\ \E u \in variables \ DOMAIN callArg :
          Cardinality(domains[u]) > Cardinality(domains[last.ret])

\* The number of pairs of an unassigned neighbour n of var and a word of
\* n's domain that differs from word at the overlap.
EliminationCount(var, assignment, word) ==
    Cardinality(
      { p \in (Neighbors(variables, var) \ DOMAIN assignment) \X WordUniverse :
          /\ p[2] \in domains[p[1]]
          /\ At(word, Overlap(var, p[1])[1]) # At(p[2], Overlap(p[1], var)[1]) })

\* C13: order_domain_values(var, assignment) returns every word of var's
\* domain exactly once, in non-decreasing order of the number of words of
\* the domains of var's unassigned neighbours that differ from it at the
\* overlap; assigned neighbours do not count.
C13_OrderLeastConstraining ==
    last.op = "order_domain_values" =>
        LET var  == last.x
            vals == last.ret
        IN  /\ Len(vals) = Cardinality(domains[var])
            /\ { vals[k] : k \in DOMAIN vals } = domains[var]
            /\ \A k \in 1..(Len(vals) - 1) :
                  EliminationCount(var, callArg, vals[k])
                     <= EliminationCount(var, callArg, vals[k + 1])
            /\ domains = last.before

\* The words came back in an order their counts force, one neighbour of
\* var being assigned and another not.
C13_Witness ==
    /\ last.op = "order_domain_values"
    /\ Len(last.ret) >= 2
    /\ EliminationCount(last.x, callArg, last.ret[1])
         < EliminationCount(last.x, callArg, last.ret[Len(last.ret)])
    /\ WordRank(last.ret[1]) > WordRank(last.ret[Len(last.ret)])
    /\ Neighbors(variables, last.x) \cap DOMAIN callArg # {}
    /\ Neighbors(variables, last.x) \ DOMAIN callArg # {}

\* C14: a call of backtrack never writes the assignment it was given: the
\* assignment of every active call stays what it was on entry, through every
\* iteration of its loop and every return of a call it made, and the
\* assignment of a call is its caller's plus the one variable tried.
C14_AssignmentNotMutated ==
    /\ [][\A k \in DOMAIN stack :
             k <= Len(stack') => stack'[k].assignment = stack[k].assignment]_vars
    /\ [][Len(stack') > Len(stack) =>
             stack'[Len(stack')].assignment = callArg]_vars
    /\ [](\A k \in 1..(Len(stack) - 1) :
            /\ stack[k].var \notin DOMAIN stack[k].assignment
            /\ stack[k + 1].assignment =
                  Extend(stack[k].assignment, stack[k].var,
                         stack[k].values[stack[k].k - 1]))
    /\ [](stack # <<>> => stack[1].assignment = EmptyAssignment)

\* A recursive call has just failed and returned to a caller whose own
\* assignment is not empty.
C14_Witness ==
    /\ pc = "bt_ret"
    /\ retKind = "None"
    /\ stack # <<>>
    /\ DOMAIN Top.assignment # {}

\* C15: throughout solve() no step adds a word to a domain or changes the set
\* of variables that have a domain, and from the moment solve() turns to
\* backtrack no step changes a domain at all.
C15_DomainsOnlyShrink ==
    /\ [][DOMAIN domains' = DOMAIN domains]_vars
    /\ [][\A v \in DOMAIN domains : domains'[v] \subseteq domains[v]]_vars
    /\ [][(pc \in {"solve_bt", "bt_call", "bt_loop", "bt_ret", "done"}) =>
             domains' = domains]_vars

\* solve() has returned an assignment, node consistency and ac3 having each
\* removed words from a domain that still holds words.
C15_Witness ==
    /\ pc = "done"
    /\ \E v \in variables :
          /\ Fitting(v) # words
          /\ domains[v] # Fitting(v)
          /\ domains[v] # {}
    /\ \E v \in variables : Cardinality(domains[v]) >= 2
    /\ retKind = "assignment"

\* A call of backtrack is at depth d when d calls of backtrack are active
\* above it: the call solve() makes is at depth 0.
Depth == Len(stack)

\* C16: every assignment backtrack is invoked on, the empty one and every
\* recursive one, passes consistent, in whatever order its keys are, and has
\* no repeated word, no word of the wrong length and no disagreement at an
\* overlap; a recursive call is given exactly one
\* variable more than its caller has; and the depth of the recursion never
\* exceeds the number of variables.
C16_CallsConsistentAndBounded ==
    /\ pc = "bt_call" =>
          /\ Consistent(NewKeys, callArg) = "True"
          /\ \A keys \in Orderings(DOMAIN callArg) :
                Consistent(keys, callArg) = "True"
          /\ ~ Inconsistent(callArg)
          /\ stack # <<>> =>
                /\ DOMAIN Top.assignment \subseteq DOMAIN callArg
                /\ Cardinality(DOMAIN callArg)
                     = Cardinality(DOMAIN Top.assignment) + 1
    /\ \A k \in DOMAIN stack :
          Cardinality(DOMAIN stack[k].assignment) = k - 1
    /\ Depth <= Cardinality(variables)

\* backtrack is entered at the greatest depth, on a complete assignment of
\* a puzzle of three variables, after a recursive call has failed.
C16_Witness ==
    /\ pc = "bt_call"
    /\ Depth = Cardinality(variables)
    /\ Cardinality(variables) = 3
    /\ retKind = "None"

\* C17: ac3 over all arcs, on node-consistent domains, never removes from a
\* variable's domain the word the variable has in a complete assignment that
\* satisfies the length, distinctness and overlap constraints: every such
\* word is in the domain before ac3, after each iteration of its loop and
\* when it has returned; so when such an assignment exists ac3 does not
\* return False.
C17_Ac3KeepsSolutions ==
    pc \in {"idle", "ac3_loop"} =>
        /\ \A a \in [variables -> words] :
              Valid(a) => \A v \in variables : a[v] \in domains[v]
        /\ SolutionExists => ac3Result # "False"

\* ac3 has returned True on a puzzle that has a solution, after removing a
\* word of the right length that no solution uses.
C17_Witness ==
    /\ pc = "idle"
    /\ last.op = "ac3"
    /\ ac3Result = "True"
    /\ SolutionExists
    /\ \E v \in variables : domains[v] # Fitting(v)

\* C18 as stated: whenever ac3 over all arcs, run after
\* enforce_node_consistency, returns True, no domain is empty.
C18_AllDomainsNonEmpty ==
    ac3Result = "True" => \A v \in variables : domains[v] # {}

\* C18, amended: whenever ac3 over all arcs, run after
\* enforce_node_consistency, returns True, ac3 has emptied no domain: every
\* domain that held a word when ac3 started still holds one, and a domain is
\* empty only if the word list has no word of the variable's length.
C18_Ac3EmptiedNoDomain ==
    ac3Result = "True" =>
        \A v \in variables : Fitting(v) # {} => domains[v] # {}

\* ac3 has returned True after removing words from a domain, which still
\* holds a word.
C18_Witness ==
    /\ ac3Result = "True"
    /\ pc = "solve_bt"
    /\ \E v \in variables : domains[v] # Fitting(v) /\ domains[v] # {}

\* The call of backtrack the caller made has returned.
Returned == last.op = "backtrack" /\ pc = "bt_ret" /\ stack = <<>>

\* C19: when backtrack(a), a a partial assignment that passes consistent,
\* returns an assignment r, r gives every variable of a the word a gives it,
\* r is complete and passes consistent, every word r gives a variable that
\* is not in a is in that variable's domain, and r is a when a is complete.
C19_BacktrackExtends ==
    (Returned /\ retKind = "assignment") =>
        LET a == last.x
            r == result
        IN  /\ DOMAIN r = variables
            /\ \A v \in DOMAIN a : r[v] = a[v]
            /\ \A keys \in Orderings(variables) : Consistent(keys, r) = "True"
            /\ ~ Inconsistent(r)
            /\ \A v \in variables \ DOMAIN a : r[v] \in domains[v]
            /\ DOMAIN a = variables => r = a
            /\ domains = last.before

\* backtrack has returned an assignment of three variables, one of which
\* the caller had assigned and the search the other two.
C19_Witness ==
    /\ Returned
    /\ retKind = "assignment"
    /\ Cardinality(variables) = 3
    /\ Cardinality(DOMAIN last.x) = 1
    /\ Cardinality(DOMAIN result) = 3
    /\ searched

=============================================================================
